---- MODULE Spec2Model ----
(***************************************************************************)
(* Bakery production predictor: the data pipeline of                       *)
(* utils/data_processing.py, the forecast adapter of utils/forecasting.py, *)
(* the recommendation engine of utils/recommendations.py and the session   *)
(* of app.py.                                                              *)
(***************************************************************************)
EXTENDS Integers, Sequences, FiniteSets, TLC

VARIABLES
    data,             \* st.session_state.data
    forecast_model,   \* st.session_state.forecast_model
    forecast_data,    \* st.session_state.forecast_data
    recommendations,  \* st.session_state.recommendations
    call,             \* the function call being made: its name and arguments
    frame,            \* locals of the call, as it returns
    ret               \* what the call returned (None before it returns)

vars == <<data, forecast_model, forecast_data, recommendations, call, frame, ret>>

\* A value that may be None is held as a sequence: <<>> for None, <<v>>
\* for v.
None == <<>>
Some(v) == <<v>>
Val(o) == o[1]

\* the sequence f[1], ..., f[n] of a function on 1..n, its elements
\* evaluated once each
Tuple(f) == f \o <<>>

(***************************************************************************)
(* float64 arithmetic.  A double is [neg, n, e], its value                 *)
(* (-1)^neg * n * 2^e, with n a natural number of at most 53 bits held as  *)
(* a little-endian sequence of limbs in base 2^15 (<<>> is 0).  Every      *)
(* operation computes the exact result and rounds it to nearest, ties to   *)
(* even, as IEEE 754 does.  Exponent range (overflow, subnormals) is not   *)
(* modelled: the values of the pipeline stay far inside it.                *)
(***************************************************************************)
LimbBits == 15
Base == 2 ^ 15
MantBits == 53

RECURSIVE Pow2(_)
Pow2(k) == IF k = 0 THEN 1 ELSE 2 * Pow2(k - 1)

RECURSIVE BNorm(_)
BNorm(a) ==
    IF a = <<>> THEN <<>>
    ELSE IF a[Len(a)] = 0 THEN BNorm(SubSeq(a, 1, Len(a) - 1))
    ELSE a

RECURSIVE BFromInt(_)
BFromInt(k) == IF k = 0 THEN <<>> ELSE <<k % Base>> \o BFromInt(k \div Base)

RECURSIVE BToInt(_)
BToInt(a) == IF a = <<>> THEN 0 ELSE Head(a) + Base * BToInt(Tail(a))

Limb(a, i) == IF i <= Len(a) THEN a[i] ELSE 0

RECURSIVE BAddC(_, _, _, _)
BAddC(a, b, i, c) ==
    IF i > Len(a) /\ i > Len(b)
    THEN IF c = 0 THEN <<>> ELSE <<c>>
    ELSE LET x == Limb(a, i) + Limb(b, i) + c
         IN  <<x % Base>> \o BAddC(a, b, i + 1, x \div Base)

BAdd(a, b) == BAddC(a, b, 1, 0)

\* a - b for a >= b
RECURSIVE BSubC(_, _, _, _)
BSubC(a, b, i, c) ==
    IF i > Len(a) THEN <<>>
    ELSE LET x == Limb(a, i) - Limb(b, i) - c
         IN  <<x % Base>> \o BSubC(a, b, i + 1, IF x < 0 THEN 1 ELSE 0)

BSub(a, b) == BNorm(BSubC(a, b, 1, 0))

\* -1, 0, 1 as a < b, a = b, a > b, comparing from limb i down
RECURSIVE BCmpFrom(_, _, _)
BCmpFrom(a, b, i) ==
    IF i = 0 THEN 0
    ELSE IF a[i] < b[i] THEN -1
    ELSE IF a[i] > b[i] THEN 1
    ELSE BCmpFrom(a, b, i - 1)

BCmp(a, b) ==
    IF Len(a) < Len(b) THEN -1
    ELSE IF Len(a) > Len(b) THEN 1
    ELSE BCmpFrom(a, b, Len(a))

\* a * k + c for 0 <= k, c < Base
RECURSIVE BMulSmallC(_, _, _, _)
BMulSmallC(a, k, i, c) ==
    IF i > Len(a)
    THEN IF c = 0 THEN <<>> ELSE <<c>>
    ELSE LET x == a[i] * k + c
         IN  <<x % Base>> \o BMulSmallC(a, k, i + 1, x \div Base)

BMulSmall(a, k) == IF k = 0 THEN <<>> ELSE BMulSmallC(a, k, 1, 0)

BShiftLimbs(a, w) == IF a = <<>> THEN <<>> ELSE [i \in 1..w |-> 0] \o a

RECURSIVE BMulFrom(_, _, _)
BMulFrom(a, b, i) ==
    IF i > Len(b) THEN <<>>
    ELSE BAdd(BMulSmall(a, b[i]), BShiftLimbs(BMulFrom(a, b, i + 1), 1))

BMul(a, b) == BMulFrom(a, b, 1)

\* a divided by d, 0 < d < Base: [q |-> quotient, r |-> remainder],
\* long division from limb i down with r the remainder carried in
RECURSIVE BDivSmallFrom(_, _, _, _)
BDivSmallFrom(a, d, i, r) ==
    IF i = 0 THEN [q |-> <<>>, r |-> r]
    ELSE LET x    == r * Base + a[i]
             rest == BDivSmallFrom(a, d, i - 1, x % d)
         IN  [q |-> rest.q \o <<x \div d>>, r |-> rest.r]

BDivSmall(a, d) ==
    LET Norm(res) == [q |-> BNorm(res.q), r |-> res.r]
    IN  Norm(BDivSmallFrom(a, d, Len(a), 0))

RECURSIVE IntBitLen(_)
IntBitLen(k) == IF k = 0 THEN 0 ELSE 1 + IntBitLen(k \div 2)

BitLen(a) ==
    IF a = <<>> THEN 0 ELSE LimbBits * (Len(a) - 1) + IntBitLen(a[Len(a)])

BShl(a, s) ==
    BShiftLimbs(BMulSmall(a, Pow2(s % LimbBits)), s \div LimbBits)

\* a shifted right by s bits: [q |-> a div 2^s, sticky |-> a mod 2^s # 0]
BShr(a, s) ==
    LET Parts(low, res) ==
            [q |-> res.q,
             sticky |-> res.r # 0 \/ \E i \in 1..Len(low) : low[i] # 0]
    IN  Parts(SubSeq(a, 1, IF s \div LimbBits < Len(a) THEN s \div LimbBits
                           ELSE Len(a)),
              BDivSmall(SubSeq(a, s \div LimbBits + 1, Len(a)),
                        Pow2(s % LimbBits)))

BOdd(a) == a # <<>> /\ a[1] % 2 = 1

FZero == [neg |-> FALSE, n |-> <<>>, e |-> 0]

\* round-to-nearest-even of (-1)^neg * (n + eps) * 2^e, 0 <= eps < 1, where
\* sticky says eps > 0 (then n must have more than MantBits + 1 bits)
\* q, or q + 1 when the guard bit g is set and the rest is above a half
\* (st) or exactly a half with q odd
RoundUp(q, g, st) == IF g /\ (st \/ BOdd(q)) THEN BAdd(q, <<1>>) ELSE q

\* sh holds the top MantBits + 1 bits of n and whether anything was shifted
\* out below them
RoundShifted(neg, sh, e, sticky) ==
    [neg |-> neg,
     n |-> RoundUp(BDivSmall(sh.q, 2).q, BOdd(sh.q), sh.sticky \/ sticky),
     e |-> e]

Round53(neg, n, e, sticky) ==
    IF BitLen(n) <= MantBits THEN [neg |-> neg, n |-> n, e |-> e]
    ELSE RoundShifted(neg, BShr(n, BitLen(n) - MantBits - 1),
                      e + BitLen(n) - MantBits, sticky)

FFromInt(k) ==
    IF k < 0 THEN [neg |-> TRUE, n |-> BFromInt(-k), e |-> 0]
    ELSE [neg |-> FALSE, n |-> BFromInt(k), e |-> 0]

FNeg(x) == [x EXCEPT !.neg = ~x.neg]

FMul(x, y) ==
    Round53(x.neg # y.neg, BMul(x.n, y.n), x.e + y.e, FALSE)

\* the sum of (-1)^xneg * nx * 2^e and (-1)^yneg * ny * 2^e
FAddAligned(xneg, nx, yneg, ny, e) ==
    Round53(IF xneg = yneg \/ BCmp(nx, ny) >= 0 THEN xneg ELSE yneg,
            IF xneg = yneg THEN BAdd(nx, ny)
            ELSE IF BCmp(nx, ny) >= 0 THEN BSub(nx, ny)
            ELSE BSub(ny, nx),
            e, FALSE)

FAdd(x, y) ==
    LET At(e) ==
            FAddAligned(x.neg, BShl(x.n, x.e - e), y.neg, BShl(y.n, y.e - e), e)
    IN  At(IF x.e < y.e THEN x.e ELSE y.e)

FSub(x, y) == FAdd(x, FNeg(y))

\* x / d for an integer 0 < d < Base
DivGuard == 4 * LimbBits
FDivSmall(x, d) ==
    LET Quot(res) ==
            Round53(x.neg, res.q, x.e - (DivGuard + MantBits), res.r # 0)
    IN  Quot(BDivSmall(BShl(x.n, DivGuard + MantBits), d))

\* -1, 0, 1 as x < y, x = y, x > y
FCmp(x, y) ==
    LET Sign(d) == IF d.n = <<>> THEN 0 ELSE IF d.neg THEN -1 ELSE 1
    IN  Sign(FSub(x, y))

\* numpy.ceil followed by astype(int)
FCeil(x) ==
    LET Up(sh) ==
            IF x.neg THEN -BToInt(sh.q)
            ELSE BToInt(sh.q) + (IF sh.sticky THEN 1 ELSE 0)
    IN  IF x.e >= 0 THEN (IF x.neg THEN -1 ELSE 1) * BToInt(BShl(x.n, x.e))
        ELSE Up(BShr(x.n, -x.e))

\* Series.round() followed by astype(int): round half to even
FRound(x) ==
    (IF x.neg THEN -1 ELSE 1)
    * BToInt(IF x.e >= 0 THEN BShl(x.n, x.e)
             ELSE RoundShifted(FALSE, BShr(x.n, -x.e - 1), 0, FALSE).n)

\* the integer square root of k < 2^30, deciding bits i, ..., 0 above r
RECURSIVE IntIsqrtFrom(_, _, _)
IntIsqrtFrom(k, i, r) ==
    IF i < 0 THEN r
    ELSE IF (r + Pow2(i)) * (r + Pow2(i)) <= k
         THEN IntIsqrtFrom(k, i - 1, r + Pow2(i))
         ELSE IntIsqrtFrom(k, i - 1, r)

\* the largest digit d' <= d with (D + d') * d' <= R
RECURSIVE FitDigit(_, _, _)
FitDigit(D, d, R) ==
    IF BCmp(BMulSmall(BAdd(D, <<d>>), d), R) > 0
    THEN FitDigit(D, d - 1, R)
    ELSE d

\* the next digit: the largest d with (D + d) * d <= R, where D is twice r
\* shifted one limb, found from an estimate capped at Base - 1
NextDigit(r, R, D) ==
    LET Capped(est) ==
            IF Len(est) > 1 THEN Base - 1 ELSE IF est = <<>> THEN 0 ELSE est[1]
    IN  FitDigit(D,
                 Capped(BDivSmall(SubSeq(R, Len(r) + 1, Len(R)),
                                  2 * r[Len(r)]).q),
                 R)

\* long-hand square root in base 2^15: r is the root of the limb pairs
\* above pair k and rem what they leave; each step brings down pair k and
\* finds the next digit from an estimate that is never too small
RECURSIVE BIsqrtFrom(_, _, _, _)
BIsqrtFrom(n, k, r, rem) ==
    LET Digit(R, D, d) ==
            BIsqrtFrom(n, k - 1, <<d>> \o r,
                       BSub(R, BMulSmall(BAdd(D, <<d>>), d)))
        Step(R, D) == Digit(R, D, NextDigit(r, R, D))
    IN  IF k = 0 THEN [r |-> r, rem |-> rem]
        ELSE Step(BNorm(<<n[2 * k - 1], n[2 * k]>> \o rem),
                  BShiftLimbs(BMulSmall(r, 2), 1))

\* the integer square root of n, whose length is 2 * K limbs with the top
\* pair at least 2^28: [r |-> root, rem |-> n - root^2]
BIsqrt(n) ==
    LET Rest(K, P, r1) == BIsqrtFrom(n, K - 1, <<r1>>, BFromInt(P - r1 * r1))
        Top(K, P) == Rest(K, P, IntIsqrtFrom(P, LimbBits - 1, 0))
        Pairs(K) == Top(K, n[2 * K] * Base + n[2 * K - 1])
    IN  Pairs(Len(n) \div 2)

\* numpy.sqrt of x >= 0: correctly rounded.  The mantissa is shifted left
\* to SqrtLimbs limbs, by a count that leaves the exponent even.
SqrtLimbs == 8

FSqrt(x) ==
    LET Root(s, e) == Round53(FALSE, s.r, e, s.rem # <<>>)
        Shifted(t) == Root(BIsqrt(BShl(x.n, t)), (x.e - t) \div 2)
    IN
    IF x.n = <<>> THEN FZero
    ELSE Shifted(IF (x.e - (SqrtLimbs * LimbBits - 1 - BitLen(x.n))) % 2 = 0
                 THEN SqrtLimbs * LimbBits - 1 - BitLen(x.n)
                 ELSE SqrtLimbs * LimbBits - BitLen(x.n))

(***************************************************************************)
(* utils/recommendations.py.  A forecast is a sequence of points           *)
(* [ds, yhat, yhat_lower, yhat_upper]: ds a time in ticks (TicksPerDay to  *)
(* the day, the forecast's own points at midnight), the other three        *)
(* doubles.  NaN is the one value that is no number.                       *)
(***************************************************************************)
TicksPerDay == 2
NaN == [nan |-> TRUE]
IsNaN(x) == "nan" \in DOMAIN x

FHalves(k) == [neg |-> k < 0, n |-> BFromInt(IF k < 0 THEN -k ELSE k), e |-> -1]

\* buffer_percentage/100 alone, the 1 left out
Fraction(b) == FDivSmall(FFromInt(b), 100)

\* 1 + buffer_percentage/100
Multiplier(b) == FAdd(FFromInt(1), FDivSmall(FFromInt(b), 100))

\* np.ceil(x * (1 + buffer_percentage/100)) ... .astype(int)
Buffered(x, b) == FCeil(FMul(x, Multiplier(b)))

\* Date: strftime('%Y-%m-%d') keeps the day and drops the time of day
DateText(ds) == ds \div TicksPerDay

\* forecast[forecast['ds'] >= now]
FutureForecast(forecast, now) ==
    LET IsFuture(p) == p.ds >= now
    IN  SelectSeq(forecast, IsFuture)

\* lines 25-29: recommended_production, min_production, max_production
BufferedPoint(p, b) ==
    [c \in {"yhat", "yhat_lower", "yhat_upper"} |-> Buffered(p[c], b)]

\* lines 25-45: one row of daily_plan, before the risk level is set
PlanRow(p, b) ==
    LET Columns(recommended, min, max) ==
            [Date |-> DateText(p.ds),
             ForecastedSales |-> FRound(p.yhat),
             RecommendedProduction |-> recommended,
             MinimumProduction |-> min,
             MaximumProduction |-> max,
             Uncertainty |-> max - min]
    IN  Columns(BufferedPoint(p, b).yhat, BufferedPoint(p, b).yhat_lower,
                BufferedPoint(p, b).yhat_upper)

PlanRows(future, b) == Tuple([i \in 1..Len(future) |-> PlanRow(future[i], b)])

\* numpy's sum of fewer than 8 doubles: one accumulator, left to right
RECURSIVE FSumFrom(_, _, _)
FSumFrom(xs, i, acc) ==
    IF i > Len(xs) THEN acc ELSE FSumFrom(xs, i + 1, FAdd(acc, xs[i]))

FSum(xs) == FSumFrom(xs, 1, FZero)

Floats(us) == Tuple([i \in 1..Len(us) |-> FFromInt(us[i])])

\* Series.mean() of an int64 column: the float64 sum over the count
Mean(us) ==
    IF Len(us) = 0 THEN NaN ELSE FDivSmall(FSum(Floats(us)), Len(us))

\* (avg - values) ** 2
SquaredDeviations(xs, avg) ==
    LET Square(d) == FMul(d, d)
    IN  Tuple([i \in 1..Len(xs) |-> Square(FSub(avg, xs[i]))])

\* Series.std() of an int64 column (ddof = 1): NaN for fewer than two
\* values, else sqrt(sum((avg - values)**2) / (count - 1))
Std(us) ==
    IF Len(us) <= 1 THEN NaN
    ELSE FSqrt(FDivSmall(FSum(SquaredDeviations(Floats(us), Mean(us))),
                         Len(us) - 1))

\* avg_uncertainty + 1.5 * std_uncertainty
RiskThreshold(us) ==
    LET Threshold(avg, std) ==
            IF IsNaN(avg) \/ IsNaN(std) THEN NaN
            ELSE FAdd(avg, FMul(FHalves(3), std))
    IN  Threshold(Mean(us), Std(us))

\* the comparison with >= in place of >
ReachesThreshold(u, thr) == ~IsNaN(thr) /\ FCmp(FFromInt(u), thr) >= 0

\* Uncertainty > threshold: a comparison with NaN is False
ExceedsThreshold(u, thr) == ~IsNaN(thr) /\ FCmp(FFromInt(u), thr) = 1

Uncertainties(rows) == Tuple([i \in 1..Len(rows) |-> rows[i].Uncertainty])

\* lines 46-53: Risk Level, 'Normal' but 'High' above the threshold
RiskRows(rows, thr) ==
    Tuple([i \in 1..Len(rows) |->
        [Date |-> rows[i].Date,
         ForecastedSales |-> rows[i].ForecastedSales,
         RecommendedProduction |-> rows[i].RecommendedProduction,
         MinimumProduction |-> rows[i].MinimumProduction,
         MaximumProduction |-> rows[i].MaximumProduction,
         Uncertainty |-> rows[i].Uncertainty,
         RiskLevel |-> IF ExceedsThreshold(rows[i].Uncertainty, thr)
                       THEN "High" ELSE "Normal"]])

WithRisk(rows) == RiskRows(rows, RiskThreshold(Uncertainties(rows)))

\* lines 21-53: daily_plan with its risk levels
DailyPlan(forecast, now, b) ==
    WithRisk(PlanRows(FutureForecast(forecast, now), b))

Raised(e) == [raised |-> e]
IsRaised(r) == "raised" \in DOMAIN r

RECURSIVE SumInts(_)
SumInts(xs) == IF xs = <<>> THEN 0 ELSE Head(xs) + SumInts(Tail(xs))

MaxInt(xs) == CHOOSE m \in {xs[i] : i \in 1..Len(xs)} :
                  \A i \in 1..Len(xs) : xs[i] <= m

\* idxmax(): the first row that holds the maximum
IdxMax(xs) == CHOOSE i \in 1..Len(xs) :
                  /\ xs[i] = MaxInt(xs)
                  /\ \A j \in 1..(i - 1) : xs[j] < xs[i]

Recommended(plan) ==
    Tuple([i \in 1..Len(plan) |-> plan[i].RecommendedProduction])

\* the aggregates without the check for an empty frame: idxmax() of an
\* empty column raises ValueError
AggregatesUnchecked(plan, rec) ==
    IF Len(plan) = 0 THEN Raised("ValueError")
    ELSE [avg_daily_production |-> Mean(rec),
          total_production |-> SumInts(rec),
          peak_production |-> MaxInt(rec),
          peak_production_date |-> plan[IdxMax(rec)].Date]

\* lines 69-80: avg/total/peak production and the peak's date
AggregatesOf(plan, rec) ==
    IF Len(plan) = 0
    THEN [avg_daily_production |-> 0,
          total_production |-> 0,
          peak_production |-> 0,
          peak_production_date |-> "N/A"]
    ELSE [avg_daily_production |-> Mean(rec),
          total_production |-> SumInts(rec),
          peak_production |-> MaxInt(rec),
          peak_production_date |-> plan[IdxMax(rec)].Date]

Aggregates(plan) == AggregatesOf(plan, Recommended(plan))

(***************************************************************************)
(* generate_additional_recommendations.  It works on the caller's          *)
(* daily_plan itself: the columns it adds and the rows it drops are added  *)
(* to and dropped from the frame the caller goes on to return.             *)
(***************************************************************************)
Inf == [inf |-> TRUE]
IsInf(x) == "inf" \in DOMAIN x

\* a / d for integers, d # 0
FDivInt(a, d) ==
    IF d < 0 THEN FNeg(FDivSmall(FFromInt(a), -d))
    ELSE FDivSmall(FFromInt(a), d)

\* (Daily_Change / Prev_Production) * 100
PercentChange(cur, prev) ==
    IF prev = 0 THEN (IF cur = 0 THEN NaN ELSE Inf)
    ELSE FMul(FDivInt(cur - prev, prev), FFromInt(100))

\* Percent_Change of row i: shift(1) leaves the first row without a
\* previous production
PercentChangeAt(plan, i) ==
    IF i = 1 THEN NaN
    ELSE PercentChange(plan[i].RecommendedProduction,
                       plan[i - 1].RecommendedProduction)

\* abs(Percent_Change) > 20
SignificantThreshold == 20
IsSignificant(pct) ==
    \/ IsInf(pct)
    \/ /\ ~IsNaN(pct)
       /\ FCmp([pct EXCEPT !.neg = FALSE], FFromInt(SignificantThreshold)) = 1

\* the rows dropna(subset=['Percent_Change']) keeps, as indices of plan
RECURSIVE KeptFrom(_, _)
KeptFrom(plan, i) ==
    IF i > Len(plan) THEN <<>>
    ELSE (IF IsNaN(PercentChangeAt(plan, i)) THEN <<>> ELSE <<i>>)
         \o KeptFrom(plan, i + 1)

KeptRows(plan) == IF Len(plan) = 0 THEN <<>> ELSE KeptFrom(plan, 1)

\* the rows of plan at the indices idx
RowsAt(plan, idx) == Tuple([k \in 1..Len(idx) |-> plan[idx[k]]])

DayNames == <<"Thursday", "Friday", "Saturday", "Sunday", "Monday",
              "Tuesday", "Wednesday">>
\* groupby('Day_Name') orders its groups by name
SortedDayNames == <<"Friday", "Monday", "Saturday", "Sunday", "Thursday",
                    "Tuesday", "Wednesday">>
\* pd.to_datetime(Date).dt.day_name(): day 0 is 1970-01-01, a Thursday
DayName(date) == DayNames[(date % 7) + 1]

\* the weekdays present in rows, in the order of the groups
PresentDays(rows) ==
    SelectSeq(SortedDayNames,
              LAMBDA nm : \E k \in 1..Len(rows) : DayName(rows[k].Date) = nm)

\* weekday_avg: the mean recommended production of each weekday present
WeekdayAvg(rows, name) ==
    Mean(Recommended(SelectSeq(rows, LAMBDA r : DayName(r.Date) = name)))

WeekdayAvgs(rows, present) ==
    Tuple([k \in 1..Len(present) |-> WeekdayAvg(rows, present[k])])

\* idxmax() (sign = 1) or idxmin() (sign = -1): the first group whose
\* average none exceeds (none is below)
ExtremeIndex(avgs, sign) ==
    CHOOSE k \in 1..Len(avgs) :
        \A j \in 1..Len(avgs) :
            /\ FCmp(avgs[j], avgs[k]) # sign
            /\ j < k => FCmp(avgs[j], avgs[k]) # 0

\* lines 146-161: highest_day (at 1) and lowest_day (at -1)
WeekdayPattern(rows) ==
    LET Extremes(present, avgs) ==
            [s \in {-1, 1} |-> present[ExtremeIndex(avgs, s)]]
    IN  IF Len(rows) = 0 THEN [s \in {-1, 1} |-> "Not available"]
        ELSE Extremes(PresentDays(rows), WeekdayAvgs(rows, PresentDays(rows)))

\* lines 143, 189: the rows whose production changes by more than 20%
SignificantRows(plan, kept) ==
    SelectSeq(kept, LAMBDA i : IsSignificant(PercentChangeAt(plan, i)))

\* the text, as the values that fill its template (how a number is printed
\* is not modelled)
RecommendationText(plan, kept, days, product_name, avg_production, peak) ==
    [no_data |-> Len(plan) = 0,
     product |-> product_name,
     highest_day |-> days[1],
     lowest_day |-> days[-1],
     significant_changes |-> Len(SignificantRows(plan, kept)),
     peak_production |-> peak,
     percent_higher |-> IF Len(plan) = 0 THEN FALSE
                        ELSE ~avg_production.neg /\ avg_production.n # <<>>]

\* generate_additional_recommendations: the text and daily_plan as the call
\* leaves it
AdditionalRecommendations(plan, product_name, avg_production, peak_production) ==
    LET Left(kept) ==
            [daily_plan |-> RowsAt(plan, kept),
             text |-> RecommendationText(plan, kept,
                          WeekdayPattern(RowsAt(plan, kept)), product_name,
                          avg_production, peak_production)]
    IN  Left(KeptRows(plan))

\* line 56: daily_plan[daily_plan['Risk Level'] == 'High'].copy()
HighRiskDays(plan) == SelectSeq(plan, LAMBDA r : r.RiskLevel = "High")

\* lines 92, 93: the columns of daily_plan and of high_risk_days returned
ReturnedPlan(plan) ==
    Tuple([i \in 1..Len(plan) |->
        [Date |-> plan[i].Date,
         ForecastedSales |-> plan[i].ForecastedSales,
         RecommendedProduction |-> plan[i].RecommendedProduction,
         RiskLevel |-> plan[i].RiskLevel]])

ReturnedHighRisk(high) ==
    Tuple([i \in 1..Len(high) |->
        [Date |-> high[i].Date,
         ForecastedSales |-> high[i].ForecastedSales,
         RecommendedProduction |-> high[i].RecommendedProduction,
         Uncertainty |-> high[i].Uncertainty,
         RiskLevel |-> high[i].RiskLevel]])

\* lines 91-101: the bundle returned
Bundle(high, agg, add, b) ==
    [daily_plan |-> ReturnedPlan(add.daily_plan),
     high_risk_days |-> ReturnedHighRisk(high),
     avg_daily_production |-> agg.avg_daily_production,
     total_production |-> agg.total_production,
     peak_production |-> agg.peak_production,
     peak_production_date |-> agg.peak_production_date,
     buffer_percentage |-> b,
     risk_assessment |-> [high_risk_days |-> Len(high)],
     additional_recommendations |-> add.text]

\* lines 69-101, from the aggregates on
Recommend(plan, agg, product_name, b) ==
    IF IsRaised(agg) THEN agg
    ELSE Bundle(HighRiskDays(plan), agg,
                AdditionalRecommendations(plan, product_name,
                    agg.avg_daily_production, agg.peak_production),
                b)

\* generate_production_recommendations, with `now` what datetime.now()
\* returned: [locals |-> daily_plan as of line 56, result |-> the bundle]
GenerateProductionRecommendations(forecast, product_name, b, now) ==
    LET For(plan) ==
            [locals |-> plan,
             result |-> Recommend(plan, Aggregates(plan), product_name, b)]
    IN  For(DailyPlan(forecast, now, b))

(***************************************************************************)
(* utils/data_processing.py.  A table is [columns, rows]: the column names *)
(* and, for each row, its cells in the order of the columns.  A cell is    *)
(* null, a number v, text that reads as the date of day v, or other text.  *)
(***************************************************************************)
Null == [kind |-> "null"]
Num(v) == [kind |-> "num", v |-> v]
DateCell(d) == [kind |-> "date", v |-> d]
Text(t) == [kind |-> "text", text |-> t]

UpperCase == "ABCDEFGHIJKLMNOPQRSTUVWXYZ"
LowerCase == "abcdefghijklmnopqrstuvwxyz"

\* str.lower()
RECURSIVE Lower(_)
Lower(s) ==
    IF s = "" THEN ""
    ELSE (IF \E i \in 1..Len(UpperCase) : SubSeq(UpperCase, i, i) = Head(s)
          THEN LET i == CHOOSE i \in 1..Len(UpperCase) :
                            SubSeq(UpperCase, i, i) = Head(s)
               IN  SubSeq(LowerCase, i, i)
          ELSE Head(s))
         \o Lower(Tail(s))

\* str.strip()
RECURSIVE Strip(_)
Strip(s) ==
    IF s = "" THEN ""
    ELSE IF Head(s) = " " THEN Strip(Tail(s))
    ELSE IF SubSeq(s, Len(s), Len(s)) = " " THEN Strip(SubSeq(s, 1, Len(s) - 1))
    ELSE s

\* lines 24, 152: [col.lower().strip() for col in columns]
NormalizedColumns(columns) ==
    Tuple([i \in 1..Len(columns) |-> Strip(Lower(columns[i]))])

\* pattern in col, of two strings
Contains(col, pattern) ==
    \E i \in 1..(Len(col) - Len(pattern) + 1) :
        SubSeq(col, i, i + Len(pattern) - 1) = pattern

StdNames == <<"date", "item", "quantity", "revenue", "cogs">>

\* lines 27-33
required_columns ==
    [date |-> <<"date", "datetime", "day", "sale_date", "transaction_date",
                "date of sale", "sales date">>,
     item |-> <<"item", "product", "product_name", "item_name", "item_type",
                "product type", "goods", "bakery item">>,
     quantity |-> <<"quantity", "qty", "units", "units_sold", "quantity_sold",
                    "count", "number sold", "amount sold">>,
     revenue |-> <<"revenue", "sales", "amount", "sales_amount", "income",
                   "sales revenue", "total sales", "price">>,
     cogs |-> <<"cogs", "cost", "cost_of_goods_sold", "costs", "expense",
                "expenses", "production cost", "cost price">>]

\* the first of the columns at the positions hits, None where there is none
FirstColumn(columns, hits) ==
    IF hits = {} THEN None
    ELSE Some(columns[CHOOSE i \in hits : \A j \in hits : i <= j])

\* the positions of the columns that contain name
Containing(columns, name) ==
    {i \in 1..Len(columns) : Contains(columns[i], name)}

\* lines 43-60: the column found for a field by its names from the k-th on:
\* for each name in turn the column of that name, else the first column
\* that contains it
RECURSIVE FoundFrom(_, _, _)
FoundFrom(columns, names, k) ==
    IF k > Len(names) THEN None
    ELSE IF \E i \in 1..Len(columns) : columns[i] = names[k] THEN Some(names[k])
    ELSE IF Containing(columns, names[k]) # {}
    THEN FirstColumn(columns, Containing(columns, names[k]))
    ELSE FoundFrom(columns, names, k + 1)

\* lines 36-63: found_columns, each field at the column found for it
FoundColumns(columns) ==
    [f \in DOMAIN required_columns |-> FoundFrom(columns, required_columns[f], 1)]

\* the cells of the column called name (of the first, where several are)
Cells(table, name) ==
    Tuple([r \in 1..Len(table.rows) |->
        table.rows[r][CHOOSE i \in 1..Len(table.columns) :
                          /\ table.columns[i] = name
                          /\ \A j \in 1..(i - 1) : table.columns[j] # name]])

\* several columns share the name: table[name] is a frame, not a column
Ambiguous(table, name) ==
    Cardinality({i \in 1..Len(table.columns) : table.columns[i] = name}) > 1

IsNull(c) == c.kind = "null"
\* pd.to_numeric(errors='coerce') gives a number, not NaN
IsNumeric(c) == c.kind = "num"

\* the rows (counted from 1) whose cell is not of one of the kinds
RowsNot(cells, kinds) ==
    SelectSeq(Tuple([r \in 1..Len(cells) |-> r]),
              LAMBDA r : cells[r].kind \notin kinds)

Issue(field, column, problem, rows) ==
    [field |-> field, column |-> column, problem |-> problem, rows |-> rows]

\* lines 85-87, 105-107, 124-126: the column has missing values
MissingValues(field, column, cells) ==
    IF RowsNot(cells, {"num", "date", "text"}) = <<>> THEN <<>>
    ELSE <<Issue(field, column, "missing values",
                 RowsNot(cells, {"num", "date", "text"}))>>

\* lines 110-117: values that are no numbers, and the first 5 of their rows
NonNumeric(field, column, cells) ==
    LET Found(rows) ==
            IF rows = <<>> THEN <<>>
            ELSE <<Issue(field, column, "non-numeric values", rows),
                   Issue(field, column, "problematic rows",
                         SubSeq(rows, 1, IF Len(rows) < 5 THEN Len(rows) ELSE 5))>>
    IN  Found(RowsNot(cells, {"num"}))

\* lines 91-93, 118-119, 127-128: the messages of an exception caught
Caught(field, column) ==
    <<Issue(field, column, "error", <<>>)>>
    \o (IF field = "date" THEN <<Issue(field, column, "valid dates", <<>>)>>
        ELSE <<>>)

\* lines 82-93 (date), 102-119 (quantity, revenue, cogs), 122-128 (item):
\* the validation errors of one field; pd.to_datetime reads date text and
\* numbers (as nanoseconds from 1970-01-01) and raises on other text
FieldIssues(table, field, column) ==
    IF Ambiguous(table, column) THEN Caught(field, column)
    ELSE IF field = "date"
    THEN (IF MissingValues(field, column, Cells(table, column)) # <<>>
          THEN MissingValues(field, column, Cells(table, column))
          ELSE IF RowsNot(Cells(table, column), {"date", "num"}) # <<>>
          THEN Caught(field, column)
          ELSE <<>>)
    ELSE MissingValues(field, column, Cells(table, column))
         \o (IF field = "item" THEN <<>>
             ELSE NonNumeric(field, column, Cells(table, column)))

\* lines 79-128: validation_errors, in the order the fields are checked
ValidationErrors(table, found) ==
    FieldIssues(table, "date", Val(found.date))
    \o FieldIssues(table, "quantity", Val(found.quantity))
    \o FieldIssues(table, "revenue", Val(found.revenue))
    \o FieldIssues(table, "cogs", Val(found.cogs))
    \o FieldIssues(table, "item", Val(found.item))

\* lines 62-72: the fields not found, and the feedback that names each with
\* the names that would do
\* the first only of the fields not found
FirstMissingColumn(found) ==
    SubSeq(SelectSeq(StdNames, LAMBDA f : found[f] = None), 1, 1)

MissingColumns(found) == SelectSeq(StdNames, LAMBDA f : found[f] = None)

Feedback(table, missing) ==
    [kind |-> "missing columns",
     missing |-> missing,
     names |-> Tuple([k \in 1..Len(missing) |-> required_columns[missing[k]]]),
     available |-> table.columns]

\* lines 35-136, the columns found: (validation_result, message)
Validated(table, found, missing) ==
    IF missing # <<>> THEN <<FALSE, Feedback(table, missing)>>
    ELSE IF ValidationErrors(table, found) # <<>>
    THEN <<FALSE, [kind |-> "validation failed",
                   issues |-> ValidationErrors(table, found)]>>
    ELSE <<TRUE, [kind |-> "successful"]>>

\* validate_data: [data |-> the caller's table as the call leaves it,
\* locals |-> found_columns, result |-> (validation_result, message)]
ValidateData(table) ==
    LET Checked(renamed, found) ==
            [data |-> renamed,
             locals |-> [found_columns |-> found],
             result |-> Validated(renamed, found, MissingColumns(found))]
    IN  IF table.rows = <<>> \/ table.columns = <<>>
        THEN [data |-> table, locals |-> [found_columns |-> None],
              result |-> <<FALSE, [kind |-> "no data"]>>]
        ELSE Checked([table EXCEPT !.columns = NormalizedColumns(@)],
                     FoundColumns(NormalizedColumns(table.columns)))

(***************************************************************************)
(* preprocess_data                                                         *)
(***************************************************************************)
\* the names of each field but the first, the field's own
OtherNames == [f \in DOMAIN required_columns |-> Tail(required_columns[f])]

\* lines 155-161
column_patterns ==
    [date |-> <<"date", "datetime", "day", "sale_date", "transaction_date",
                "date of sale", "sales date">>,
     item |-> <<"item", "product", "product_name", "item_name", "item_type",
                "product type", "goods", "bakery item">>,
     quantity |-> <<"quantity", "qty", "units", "units_sold", "quantity_sold",
                    "count", "number sold", "amount sold">>,
     revenue |-> <<"revenue", "sales", "amount", "sales_amount", "income",
                   "sales revenue", "total sales", "price">>,
     cogs |-> <<"cogs", "cost", "cost_of_goods_sold", "costs", "expense",
                "expenses", "production cost", "cost price">>]

\* lines 166-180: the first column that is one of the patterns, else the
\* first column that contains one
MappedColumn(columns, patterns) ==
    LET Exact == {i \in 1..Len(columns) :
                     \E k \in 1..Len(patterns) : columns[i] = patterns[k]}
    IN  IF Exact # {} THEN FirstColumn(columns, Exact)
        ELSE FirstColumn(columns,
                 UNION {Containing(columns, patterns[k]) : k \in 1..Len(patterns)})

ColumnMapping(columns) ==
    [f \in DOMAIN column_patterns |-> MappedColumn(columns, column_patterns[f])]

\* lines 185-186: rename_dict turns the mapping round, so of two fields
\* mapped to one column the later one names it
Renamed(columns, mapping) ==
    LET Fields(col) == SelectSeq(StdNames, LAMBDA f : mapping[f] = Some(col))
        Name(col, fields) == IF fields = <<>> THEN col ELSE fields[Len(fields)]
    IN  Tuple([i \in 1..Len(columns) |-> Name(columns[i], Fields(columns[i]))])

\* pd.to_datetime(errors='coerce'): the day, None for NaT; a number counts
\* nanoseconds from 1970-01-01, and the numbers of the model are far below
\* the nanoseconds of a day
ToDatetime(c) ==
    IF c.kind = "date" THEN Some(c.v)
    ELSE IF c.kind = "num" THEN Some(IF c.v < 0 THEN -1 ELSE 0)
    ELSE None

\* pd.to_numeric(errors='coerce'): None for NaN
ToNumeric(c) == IF c.kind = "num" THEN Some(c.v) ELSE None

\* lines 217-218, 224: fillna(value, inplace=True) on df[col]; it reaches
\* df only where the column selected is not a copy
FillNa(x, isna, value, chained_inplace) ==
    IF isna /\ chained_inplace THEN value ELSE x

\* line 222 and 223: (profit / revenue) * 100, and inf replaced by NaN
ProfitMargin(profit, revenue, chained_inplace) ==
    IF profit = None THEN NaN
    ELSE IF Val(revenue) = 0
    THEN (IF Val(profit) = 0 \/ chained_inplace THEN NaN ELSE Inf)
    ELSE FMul(FDivInt(Val(profit), Val(revenue)), FFromInt(100))

\* lines 196, 213, 217-227: the columns of a row that is kept, None where
\* a cell is NaT or NaN
ProcessedRow(index, date, item, quantity, revenue, cogs, chained_inplace) ==
    LET Derived(profit) ==
            [index |-> index, date |-> date, item |-> item,
             quantity |-> quantity, revenue |-> revenue, cogs |-> cogs,
             profit |-> profit,
             profit_margin |->
                 FillNa(ProfitMargin(profit, revenue, chained_inplace),
                        IsNaN(ProfitMargin(profit, revenue, chained_inplace)),
                        FZero, chained_inplace),
             day_of_week |-> IF date = None THEN None
                             ELSE Some(DayName(Val(date)))]
    IN  Derived(IF revenue = None \/ cogs = None THEN None
                ELSE Some(Val(revenue) - Val(cogs)))

\* lines 196-227: the rows left by the two dropna, each with its columns
\* converted and derived
Cleaned(table, chained_inplace) ==
    LET Kept(dates, items, quantities) ==
            SelectSeq(Tuple([r \in 1..Len(table.rows) |-> r]),
                      LAMBDA r : /\ ToDatetime(dates[r]) # None
                                 /\ ~IsNull(items[r])
                                 /\ ToNumeric(quantities[r]) # None)
        Rows(kept, dates, items, quantities, revenues, costs) ==
            Tuple([k \in 1..Len(kept) |->
                ProcessedRow(kept[k], ToDatetime(dates[kept[k]]), items[kept[k]],
                    ToNumeric(quantities[kept[k]]),
                    FillNa(ToNumeric(revenues[kept[k]]),
                           ToNumeric(revenues[kept[k]]) = None, Some(0),
                           chained_inplace),
                    FillNa(ToNumeric(costs[kept[k]]),
                           ToNumeric(costs[kept[k]]) = None, Some(0),
                           chained_inplace),
                    chained_inplace)])
    IN  Rows(Kept(Cells(table, "date"), Cells(table, "item"),
                  Cells(table, "quantity")),
             Cells(table, "date"), Cells(table, "item"),
             Cells(table, "quantity"), Cells(table, "revenue"),
             Cells(table, "cogs"))

\* line 234: sort_values('date') with the default kind, quicksort, which
\* need not keep rows of one date in their order: every order of the rows
\* at positions left that ascends by date, NaT last
RECURSIVE SortedFrom(_, _)
SortedFrom(rows, left) ==
    IF left = {} THEN {<<>>}
    ELSE UNION {{<<rows[k]>> \o rest : rest \in SortedFrom(rows, left \ {k})} :
                k \in {j \in left : \A i \in left :
                           \/ rows[i].date = None
                           \/ /\ rows[j].date # None
                              /\ Val(rows[j].date) <= Val(rows[i].date)}}

\* a DataFrame of the rows
Frame(rows) == [rows |-> rows]

\* the frame with its rows left in their order
Unsorted(rows) == {Frame(rows)}

SortValues(rows) == {Frame(sorted) : sorted \in SortedFrom(rows, 1..Len(rows))}

\* preprocess_data: what the call may return or raise
PreprocessData(table, chained_inplace) ==
    LET Converted(df) ==
            IF \E f \in DOMAIN column_patterns :
                   \A i \in 1..Len(df.columns) : df.columns[i] # f
            THEN {Raised("ValueError")}
            ELSE IF Ambiguous(df, "date") THEN {Raised("ValueError")}
            ELSE IF \E f \in {"quantity", "revenue", "cogs"} : Ambiguous(df, f)
            THEN {Raised("TypeError")}
            ELSE SortValues(Cleaned(df, chained_inplace))
    IN  Converted([table EXCEPT !.columns =
                       Renamed(NormalizedColumns(@),
                               ColumnMapping(NormalizedColumns(@)))])

(***************************************************************************)
(* generate_production_recommendations on its own: every forecast of       *)
(* MaxDays daily points, each of one of PointKinds, with every reading of  *)
(* the clock from before the first point to after the last.                *)
(***************************************************************************)
MaxDays == 5

Point(k, l, u) == [yhat |-> FFromInt(k), yhat_lower |-> FFromInt(l),
                   yhat_upper |-> FFromInt(u)]
PointKinds == {Point(100, 80, 130), Point(0, 0, 0)}
Buffers == {0, 10, -50, -100, -150}
ProductNames == {"All Products"}
Nows == 0..((MaxDays + 1) * TicksPerDay)

\* every mix of PointKinds, and the forecast that is below zero throughout
Forecasts ==
    {[i \in 1..MaxDays |->
        [ds |-> i * TicksPerDay, yhat |-> ks[i].yhat,
         yhat_lower |-> ks[i].yhat_lower, yhat_upper |-> ks[i].yhat_upper]] :
     ks \in [1..MaxDays -> PointKinds]
             \cup {[i \in 1..MaxDays |-> Point(-100, -130, -80)]}}

SessionIdle ==
    /\ data = None
    /\ forecast_model = None
    /\ forecast_data = None
    /\ recommendations = None

PlanInit ==
    /\ SessionIdle
    /\ call \in [fn : {"generate_production_recommendations"},
                 forecast_data : Forecasts,
                 product_name : ProductNames,
                 buffer_percentage : Buffers,
                 now : Nows]
    /\ frame = None
    /\ ret = None

\* the call returns: its locals and its result are there to be read
Returns(out) ==
    /\ frame' = Some(out.locals)
    /\ ret' = Some(out.result)

GenerateRecommendations ==
    /\ call.fn = "generate_production_recommendations"
    /\ ret = None
    /\ Returns(GenerateProductionRecommendations(call.forecast_data,
                   call.product_name, call.buffer_percentage, call.now))
    /\ UNCHANGED <<data, forecast_model, forecast_data, recommendations, call>>

PlanNext == GenerateRecommendations

SpecPlan == PlanInit /\ [][PlanNext]_vars

(***************************************************************************)
(* validate_data and preprocess_data on their own: a call of either on a   *)
(* table of at most MaxRows rows, which then returns.                      *)
(***************************************************************************)
MaxRows == 2

Column(name, role) == [name |-> name, role |-> role]

\* the headers uploaded: each column with what its cells hold
Headers ==
    {<<Column("Sales Date", "date"), Column("Product Type", "item"),
       Column("Units Sold", "quantity"), Column("Total Sales", "revenue"),
       Column("Cost Price", "cogs")>>,
     <<Column("date", "date"), Column("item", "item"),
       Column("quantity", "quantity"), Column("revenue", "revenue"),
       Column("cogs", "cogs")>>,
     <<Column(" DATE ", "date"), Column("Product", "item"),
       Column("QTY", "quantity"), Column("Price", "revenue"),
       Column("Expense", "cogs")>>,
     <<Column("Day", "date"), Column("Item", "item"),
       Column("Qty", "quantity"), Column("Sales", "revenue"),
       Column("Cost", "cogs"), Column("Updated", "date")>>,
     <<Column("Datetime", "date"), Column("Date", "date"),
       Column("Item", "item"), Column("Qty", "quantity"),
       Column("Sales", "revenue"), Column("Cost", "cogs")>>,
     <<Column("Date", "date"), Column("Item", "item"),
       Column("Qty", "quantity"), Column("Sales", "revenue")>>,
     <<Column("Date", "date"), Column("Item", "item"),
       Column("Qty", "quantity")>>,
     <<Column("cogs", "cogs"), Column("revenue", "revenue"),
       Column("quantity", "quantity"), Column("item", "item"),
       Column("date", "date")>>,
     <<Column("Date", "date"), Column("Item", "item"),
       Column("Qty", "quantity"), Column("Sales Cost", "revenue")>>}

Row(date, item, quantity, revenue, cogs) ==
    [date |-> date, item |-> item, quantity |-> quantity,
     revenue |-> revenue, cogs |-> cogs]

\* the rows uploaded: well-formed ones, and ones with cells missing or
\* ill-formed
RowKinds ==
    {Row(DateCell(1), Text("bread"), Num(5), Num(10), Num(4)),
     Row(DateCell(0), Text("cake"), Num(3), Num(0), Num(0)),
     Row(DateCell(1), Text("bread"), Num(-2), Null, Num(4)),
     Row(Null, Text("bread"), Num(5), Num(10), Num(4)),
     Row(Text("soon"), Null, Num(5), Num(10), Text("free")),
     Row(DateCell(2), Text("cake"), Text("many"), Num(0), Num(4)),
     Row(DateCell(0), Text("bread"), Null, Num(10), Null)}

Table(header, rows) ==
    [columns |-> Tuple([i \in 1..Len(header) |-> header[i].name]),
     rows |-> Tuple([r \in 1..Len(rows) |->
                  Tuple([i \in 1..Len(header) |-> rows[r][header[i].role]])])]

Tables ==
    {Table(header, rows) :
        header \in Headers,
        rows \in UNION {[1..n -> RowKinds] : n \in 0..MaxRows}}

DataInit ==
    /\ SessionIdle
    /\ call \in [fn : {"validate_data"}, data : Tables]
          \cup [fn : {"preprocess_data"}, data : Tables,
                chained_inplace : BOOLEAN]
    /\ frame = None
    /\ ret = None

\* validate_data returns; the caller's table keeps the columns renamed
CallValidateData ==
    /\ call.fn = "validate_data"
    /\ ret = None
    /\ LET Leaves(out) ==
               /\ Returns(out)
               /\ call' = [call EXCEPT !.data = out.data]
       IN  Leaves(ValidateData(call.data))
    /\ UNCHANGED <<data, forecast_model, forecast_data, recommendations>>

\* preprocess_data returns or raises; it works on a copy
CallPreprocessData ==
    /\ call.fn = "preprocess_data"
    /\ ret = None
    /\ \E out \in PreprocessData(call.data, call.chained_inplace) :
           ret' = Some(out)
    /\ UNCHANGED <<data, forecast_model, forecast_data, recommendations,
                   call, frame>>

DataNext == CallValidateData \/ CallPreprocessData

SpecData == DataInit /\ [][DataNext]_vars

(***************************************************************************)
(* Properties of generate_production_recommendations, read in the state    *)
(* its call has returned to.                                               *)
(***************************************************************************)
Returned == ret # None
Result == Val(ret)
\* daily_plan as it stands at line 56, every column in it
Plan == Val(frame)
\* the points of the call's forecast with ds >= now
FuturePoints == FutureForecast(call.forecast_data, call.now)
\* the whole number a double holds
Whole(x) == FCeil(x)
\* ceil(k * (1 + b/100)) for whole k and b: the least m with 100 m >= k (100 + b)
CeilBuffered(k, b) == -((-(k * (100 + b))) \div 100)

\* C1: every row of the plan holds recommended = ceil(yhat * (1 + b/100)),
\* min = ceil(yhat_lower * (1 + b/100)), max = ceil(yhat_upper * (1 + b/100))
\* and uncertainty = max - min of its forecast point (so 100, 80, 130 with
\* b = 10 give 110, 88, 143 and 55).
C1_BufferedCeiling ==
    Returned =>
        \A i \in 1..Len(FuturePoints) :
            /\ Plan[i].RecommendedProduction =
                   CeilBuffered(Whole(FuturePoints[i].yhat), call.buffer_percentage)
            /\ Plan[i].MinimumProduction =
                   CeilBuffered(Whole(FuturePoints[i].yhat_lower),
                                call.buffer_percentage)
            /\ Plan[i].MaximumProduction =
                   CeilBuffered(Whole(FuturePoints[i].yhat_upper),
                                call.buffer_percentage)
            /\ Plan[i].Uncertainty =
                   Plan[i].MaximumProduction - Plan[i].MinimumProduction

\* n * u - (the sum of us): n times what u is above the mean of us
AboveMean(us, u) == Len(us) * u - SumInts(us)
RECURSIVE SumSquaresAbove(_, _)
SumSquaresAbove(us, i) ==
    IF i > Len(us) THEN 0
    ELSE AboveMean(us, us[i]) * AboveMean(us, us[i]) + SumSquaresAbove(us, i + 1)
\* u > mean(us) + 1.5 * stddev(us) in whole numbers, stddev the sample
\* standard deviation of two values or more: with d = n u - sum(us),
\* d > 0 and 4 (n - 1) d^2 > 9 sum_j (n us[j] - sum(us))^2
StrictlyAboveBand(us, u) ==
    /\ Len(us) >= 2
    /\ AboveMean(us, u) > 0
    /\ 4 * (Len(us) - 1) * AboveMean(us, u) * AboveMean(us, u)
           > 9 * SumSquaresAbove(us, 1)

\* C2: a row's risk level is High iff its uncertainty is strictly above
\* mean + 1.5 * stddev of the uncertainties of all rows of the plan, Normal
\* otherwise; the row of a one-row plan is Normal.
C2_RiskLevel ==
    Returned =>
        \A i \in 1..Len(Plan) :
            /\ Plan[i].RiskLevel \in {"High", "Normal"}
            /\ Plan[i].RiskLevel = "High"
                   <=> StrictlyAboveBand(Uncertainties(Plan), Plan[i].Uncertainty)
            /\ Len(Plan) = 1 => Plan[i].RiskLevel = "Normal"

\* a plan with a High row
C2_Witness ==
    /\ Returned
    /\ \E i \in 1..Len(Plan) : Plan[i].RiskLevel = "High"

\* C3: the daily_plan returned has one row for each forecast point with
\* ds >= now, in the order of the forecast, and no other: the rows the
\* aggregates were computed over, the first future day among them.
C3_RowPerFuturePoint ==
    Returned =>
        /\ Len(Result.daily_plan) = Len(FuturePoints)
        /\ \A i \in 1..Len(FuturePoints) :
               Result.daily_plan[i].Date = DateText(FuturePoints[i].ds)
        /\ Result.daily_plan = ReturnedPlan(Plan)

\* C4: with no forecast point at ds >= now the call does not raise and
\* returns 0 for avg_daily_production, total_production and peak_production,
\* "N/A" for peak_production_date, an empty daily_plan and an empty
\* high_risk_days.
C4_EmptyFuture ==
    Returned /\ FuturePoints = <<>> =>
        /\ ~IsRaised(Result)
        /\ Result.avg_daily_production = 0
        /\ Result.total_production = 0
        /\ Result.peak_production = 0
        /\ Result.peak_production_date = "N/A"
        /\ Result.daily_plan = <<>>
        /\ Result.high_risk_days = <<>>

\* the call has returned from a forecast whose points are all in the past
C4_Witness ==
    /\ Returned
    /\ call.forecast_data # <<>>
    /\ FuturePoints = <<>>

\* C11: for a forecast point and two buffer percentages b1 <= b2 the
\* recommended production with b1 is at most the recommended production
\* with b2, whatever the sign of the point's yhat.
C11_MonotoneInBuffer ==
    Returned =>
        \A b2 \in Buffers :
            call.buffer_percentage <= b2 =>
                \A i \in 1..Len(FuturePoints) :
                    Plan[i].RecommendedProduction
                        <= Buffered(FuturePoints[i].yhat, b2)

\* C15: the bundle is a function of the forecast, the product name and the
\* buffer percentage alone: the call made at any other time returns the
\* same daily_plan and, with it, the same bundle throughout.
C15_IndependentOfClock ==
    Returned =>
        \A now \in Nows :
            LET Same(other) ==
                    /\ other.daily_plan = Result.daily_plan
                    /\ other = Result
            IN  Same(GenerateProductionRecommendations(call.forecast_data,
                         call.product_name, call.buffer_percentage, now).result)

\* the bounds of a forecast point are in order
InOrder(p) == FCmp(p.yhat_lower, p.yhat) <= 0 /\ FCmp(p.yhat, p.yhat_upper) <= 0

\* a row of the plan is inverted
Inverted(row) ==
    \/ row.MinimumProduction > row.RecommendedProduction
    \/ row.MinimumProduction > row.MaximumProduction

\* C24: a plan row of a forecast point with yhat_lower <= yhat <= yhat_upper
\* and a buffer percentage of -100 or more has min <= recommended <= max
\* and an uncertainty of 0 or more; a row is inverted only where the buffer
\* percentage is below -100 or the bounds of the point are out of order.
C24_OrderKept ==
    Returned =>
        \A i \in 1..Len(FuturePoints) :
            /\ (InOrder(FuturePoints[i]) /\ call.buffer_percentage >= -100)
                   => /\ Plan[i].MinimumProduction <= Plan[i].RecommendedProduction
                      /\ Plan[i].RecommendedProduction <= Plan[i].MaximumProduction
                      /\ Plan[i].Uncertainty >= 0
            /\ Inverted(Plan[i])
                   => (call.buffer_percentage < -100 \/ ~InOrder(FuturePoints[i]))

\* a plan made with a buffer percentage below zero and not below -100 has a
\* row whose bounds differ, and a plan made with one below -100 is inverted
C24_Witness ==
    /\ Returned
    /\ call.buffer_percentage \in (-100)..(-1)
    /\ \E i \in 1..Len(FuturePoints) :
           /\ InOrder(FuturePoints[i])
           /\ Plan[i].MinimumProduction < Plan[i].RecommendedProduction
           /\ Plan[i].RecommendedProduction < Plan[i].MaximumProduction

\* C10: high_risk_days is the subsequence of the returned daily_plan whose
\* Risk Level is High: each of its rows is a High row of daily_plan, and
\* each High row of daily_plan is in it.
C10_HighRiskSubsequence ==
    Returned =>
        ReturnedPlan(Result.high_risk_days)
            = SelectSeq(Result.daily_plan, LAMBDA r : r.RiskLevel = "High")

(***************************************************************************)
(* Properties of validate_data and preprocess_data, read in the state the  *)
(* call has returned to.                                                   *)
(***************************************************************************)
ValidateReturned == call.fn = "validate_data" /\ Returned /\ call.data.rows # <<>>
found_columns == Val(frame).found_columns

SalesHeader ==
    <<"sales date", "product type", "units sold", "total sales", "cost price">>

\* a table under SalesHeader whose cells are all well-formed
WellFormed(table) ==
    /\ table.columns = SalesHeader
    /\ \A r \in 1..Len(table.rows) :
          /\ table.rows[r][1].kind = "date"
          /\ ~IsNull(table.rows[r][2])
          /\ \A i \in 3..5 : IsNumeric(table.rows[r][i])

\* C5: on a table with the columns Sales Date, Product Type, Units Sold,
\* Total Sales, Cost Price and well-formed cells, validate_data finds date at
\* "sales date", item at "product type", quantity at "units sold", revenue at
\* "total sales" and cogs at "cost price", and returns ok with no issue.
C5_SalesHeaderResolves ==
    (ValidateReturned /\ WellFormed(call.data)) =>
        /\ found_columns = [date |-> Some("sales date"),
                            item |-> Some("product type"),
                            quantity |-> Some("units sold"),
                            revenue |-> Some("total sales"),
                            cogs |-> Some("cost price")]
        /\ Result[1] = TRUE

\* the names of field f that are columns of the table, in the order of the list
ExactNames(f) ==
    SelectSeq(required_columns[f],
              LAMBDA nm : \E i \in 1..Len(call.data.columns) :
                              call.data.columns[i] = nm)

\* C6: validate_data maps a field to a column that is one of the field's
\* names wherever the table has such a column, to the one whose name comes
\* first in the list; a column that only contains a name is taken only when
\* no column is one of the names.
C6_ExactBeforeSubstring ==
    ValidateReturned =>
        \A f \in DOMAIN required_columns :
            ExactNames(f) # <<>> => found_columns[f] = Some(ExactNames(f)[1])

Preprocessed == call.fn = "preprocess_data" /\ Returned /\ ~IsRaised(Result)

\* C7: the rows preprocess_data returns ascend by date, and none of them
\* has a date that is null or unparseable, a null item, or a quantity that
\* is null or not a number.
C7_SortedWithoutNulls ==
    Preprocessed =>
        \A k \in 1..Len(Result.rows) :
            /\ Result.rows[k].date # None
            /\ ~IsNull(Result.rows[k].item)
            /\ Result.rows[k].quantity # None
            /\ k > 1 => Val(Result.rows[k - 1].date) <= Val(Result.rows[k].date)

\* preprocess_data has returned two rows, the later of the table first
C7_Witness ==
    /\ Preprocessed
    /\ Len(Result.rows) = 2
    /\ Result.rows[1].index > Result.rows[2].index
    /\ Val(Result.rows[1].date) < Val(Result.rows[2].date)

\* the cells of the column validate_data took for the date
DateCells == Cells(call.data, Val(found_columns.date))

\* C13: where the column found for the date holds a value that is not null
\* and does not read as a date, validate_data returns not ok and its message
\* has an issue of the date not parsing, whether or not the column holds
\* nulls too.
C13_DateParseIssue ==
    (/\ ValidateReturned
     /\ MissingColumns(found_columns) = <<>>
     /\ \E r \in 1..Len(DateCells) : DateCells[r].kind = "text")
        => /\ Result[1] = FALSE
           /\ Result[2].kind = "validation failed"
           /\ \E k \in 1..Len(Result[2].issues) :
                  /\ Result[2].issues[k].field = "date"
                  /\ Result[2].issues[k].problem \in {"error", "valid dates"}

\* no column of the table contains a name of field f
Unresolved(f) ==
    \A i \in 1..Len(call.data.columns), k \in 1..Len(required_columns[f]) :
        ~Contains(call.data.columns[i], required_columns[f][k])

\* C16: where fields cannot be resolved validate_data returns not ok with
\* one message that names every one of them, each with the names that would
\* do for it, and validates no column.
C16_AllMissingNamed ==
    (ValidateReturned /\ \E f \in DOMAIN required_columns : Unresolved(f))
        => /\ Result[1] = FALSE
           /\ Result[2].kind = "missing columns"
           /\ {Result[2].missing[k] : k \in 1..Len(Result[2].missing)}
                  = {f \in DOMAIN required_columns : Unresolved(f)}
           /\ \A k \in 1..Len(Result[2].missing) :
                  Result[2].names[k] = required_columns[Result[2].missing[k]]
           /\ "issues" \notin DOMAIN Result[2]

\* validate_data has returned from a table that lacks two fields and has a
\* null in the date column
C16_Witness ==
    /\ ValidateReturned
    /\ Cardinality({f \in DOMAIN required_columns : Unresolved(f)}) = 2
    /\ \E r \in 1..Len(call.data.rows) : IsNull(call.data.rows[r][1])

\* the columns of the call's table are the five standard names, in any order
Canonical ==
    /\ Len(call.data.columns) = Len(StdNames)
    /\ \A k \in 1..Len(StdNames) :
           \E i \in 1..Len(call.data.columns) : call.data.columns[i] = StdNames[k]

\* C17: on a table whose columns are the names date, item, quantity, revenue
\* and cogs, validate_data and preprocess_data both find each field at the
\* column of its own name, and the rename of preprocess_data leaves the
\* columns as they are.
C17_CanonicalResolves ==
    /\ (ValidateReturned /\ Canonical) =>
           \A f \in DOMAIN required_columns : found_columns[f] = Some(f)
    /\ (call.fn = "preprocess_data" /\ Returned /\ Canonical) =>
           /\ \A f \in DOMAIN column_patterns :
                  ColumnMapping(call.data.columns)[f] = Some(f)
           /\ Renamed(call.data.columns, ColumnMapping(call.data.columns))
                  = call.data.columns
           /\ ~IsRaised(Result)

\* preprocess_data has returned rows from a table whose columns are the
\* standard names, cogs first
C17_Witness ==
    /\ Preprocessed
    /\ Canonical
    /\ call.data.columns[1] = "cogs"
    /\ Result.rows # <<>>

\* C18: the sort of preprocess_data by date is stable: two rows returned
\* with one date stand in the order they had in the table.
C18_StableSort ==
    Preprocessed =>
        \A j, k \in 1..Len(Result.rows) :
            (j < k /\ Result.rows[j].date = Result.rows[k].date)
                => Result.rows[j].index < Result.rows[k].index

\* C21: where validate_data finds every field, the five fields are found at
\* five different columns: no column is found for two fields.
C21_DistinctColumns ==
    (ValidateReturned /\ \A f \in DOMAIN required_columns : found_columns[f] # None)
        => \A f, g \in DOMAIN required_columns :
               f # g => found_columns[f] # found_columns[g]

\* the columns of the call's table as preprocess_data renames them
RenamedColumns ==
    Renamed(NormalizedColumns(call.data.columns),
            ColumnMapping(NormalizedColumns(call.data.columns)))

\* a table validate_data accepts does not make preprocess_data raise for a
\* required column that is not there after the rename
AcceptedHasRequiredColumns ==
    (call.fn = "preprocess_data" /\ Returned /\ ValidateData(call.data).result[1])
        => ~(/\ IsRaised(Result)
             /\ \E f \in DOMAIN column_patterns :
                    \A i \in 1..Len(RenamedColumns) : RenamedColumns[i] # f)

\* C22: on columns where validate_data finds all five fields,
\* preprocess_data maps each field to the column validate_data found for
\* it; and on a table validate_data accepts preprocess_data does not raise
\* for a required column not found after the rename.
C22_SameResolution ==
    /\ (ValidateReturned /\ \A f \in DOMAIN required_columns : found_columns[f] # None)
           => \A f \in DOMAIN required_columns :
                  ColumnMapping(call.data.columns)[f] = found_columns[f]
    /\ AcceptedHasRequiredColumns

\* 100 * profit / revenue to the whole number below it
WholeMargin(r) == (100 * Val(r.profit)) \div Val(r.revenue)

\* C12: every row preprocess_data returns has profit = revenue - cogs and a
\* profit_margin that is a finite number: profit / revenue * 100 where
\* revenue is not 0, and 0 where revenue is 0, a missing revenue counting
\* as 0.
C12_FiniteMargin ==
    Preprocessed =>
        \A k \in 1..Len(Result.rows) :
            LET r == Result.rows[k]
            IN  /\ r.revenue # None /\ r.cogs # None
                /\ r.profit = Some(Val(r.revenue) - Val(r.cogs))
                /\ ~IsNaN(r.profit_margin) /\ ~IsInf(r.profit_margin)
                /\ IF Val(r.revenue) = 0 THEN FCmp(r.profit_margin, FZero) = 0
                   ELSE /\ FCmp(FFromInt(WholeMargin(r)), r.profit_margin) <= 0
                        /\ FCmp(r.profit_margin, FFromInt(WholeMargin(r) + 1)) < 0

\* C14: every row preprocess_data returns has a quantity that is a number
\* not below 0: no row of the table reaches the result with a negative
\* quantity.
C14_QuantityNotNegative ==
    Preprocessed =>
        \A k \in 1..Len(Result.rows) :
            /\ Result.rows[k].quantity # None
            /\ Val(Result.rows[k].quantity) >= 0

\* the cells of the table's column that preprocess_data renames to name
Input(name) ==
    Cells([call.data EXCEPT !.columns =
               Renamed(NormalizedColumns(@), ColumnMapping(NormalizedColumns(@)))],
          name)

\* the number in a cell, 0 for a cell that holds none
NumberOrZero(c) == IF IsNumeric(c) THEN c.v ELSE 0

\* C20: preprocess_data returns the rows of the table whose date parses,
\* whose item is not null and whose quantity is a number, and no others; a
\* row returned whose revenue or cogs is missing or no number has 0 there.
C20_KeptAndDefaulted ==
    Preprocessed =>
        /\ {Result.rows[k].index : k \in 1..Len(Result.rows)}
               = {r \in 1..Len(call.data.rows) :
                     /\ Input("date")[r].kind \in {"date", "num"}
                     /\ ~IsNull(Input("item")[r])
                     /\ IsNumeric(Input("quantity")[r])}
        /\ \A j, k \in 1..Len(Result.rows) :
               Result.rows[j].index = Result.rows[k].index => j = k
        /\ \A k \in 1..Len(Result.rows) :
               /\ Result.rows[k].revenue
                      = Some(NumberOrZero(Input("revenue")[Result.rows[k].index]))
               /\ Result.rows[k].cogs
                      = Some(NumberOrZero(Input("cogs")[Result.rows[k].index]))

(***************************************************************************)
(* The session of app.py: each run of the script that changes or reports   *)
(* on st.session_state is a step; call records the run and ret what it     *)
(* shows.                                                                  *)
(***************************************************************************)
\* line 214: the least number of rows forecast on
MinObservations == 14

\* the distinct values of xs, ascending
RECURSIVE Ascending(_)
Ascending(xs) ==
    IF xs = {} THEN <<>>
    ELSE LET Least(m) == <<m>> \o Ascending(xs \ {m})
         IN  Least(CHOOSE m \in xs : \A x \in xs : m <= x)

\* sum() of a column over the rows of one date, NaN skipped
DateSum(rows, date, col) ==
    SumInts(Tuple([k \in 1..Len(rows) |->
        IF rows[k].date = Some(date) /\ rows[k][col] # None
        THEN Val(rows[k][col]) ELSE 0]))

\* lines 207-211: groupby('date').agg(sum).reset_index(), a row for each date
AggregateByDate(rows) ==
    LET Grouped(dates) ==
            Tuple([k \in 1..Len(dates) |->
                [date |-> Some(dates[k]),
                 quantity |-> Some(DateSum(rows, dates[k], "quantity")),
                 revenue |-> Some(DateSum(rows, dates[k], "revenue")),
                 cogs |-> Some(DateSum(rows, dates[k], "cogs"))]])
    IN  Grouped(Ascending({Val(rows[k].date) : k \in 1..Len(rows)}))

\* lines 203-211: forecast_data, the rows of the product selected or the
\* sums of each date
ForecastRows(rows, selected_product) ==
    IF selected_product # "All Products"
    THEN SelectSeq(rows, LAMBDA r : r.item.text = selected_product)
    ELSE AggregateByDate(rows)

\* every row handed on as an observation of its own
Uncollapsed(rows) ==
    [history |-> Tuple([k \in 1..Len(rows) |->
        [ds |-> Val(rows[k].date), y |-> Val(rows[k].quantity)]])]

\* train_forecast_model, lines 21-26 and 41: the dates and their quantities,
\* duplicate dates summed, are what the model is fitted on
TrainForecastModel(rows) ==
    LET Fitted(dates) ==
            [history |-> Tuple([k \in 1..Len(dates) |->
                [ds |-> dates[k], y |-> DateSum(rows, dates[k], "quantity")]])]
    IN  Fitted(Ascending({Val(rows[k].date) : k \in 1..Len(rows)}))

\* the sales of one product on each of the days 1..days, and extra more
\* sales on day 1
Sales(days, extra) ==
    Table(<<Column("date", "date"), Column("item", "item"),
            Column("quantity", "quantity"), Column("revenue", "revenue"),
            Column("cogs", "cogs")>>,
          Tuple([r \in 1..(days + extra) |->
              Row(DateCell(IF r > days THEN 1 ELSE r), Text("bread"),
                  Num(5), Num(10), Num(4))]))

\* the files uploaded: two weeks of days, ten days, rows enough on days too
\* few, and a single row under each header
Uploads ==
    {Sales(MinObservations, 0), Sales(MinObservations - 4, 0),
     Sales(MinObservations - 1, 1)}
    \cup {Table(header, <<Row(DateCell(1), Text("bread"), Num(5), Num(10),
                             Num(4))>>) : header \in Headers}

\* what make_predictions may give: all points alike
Predictions == {f \in Forecasts : \A i \in 1..Len(f) : f[i].yhat = f[1].yhat}

\* datetime.now() at the run: before every point, or after all
Clock == {0, (MaxDays + 1) * TicksPerDay}

Init ==
    /\ SessionIdle
    /\ call = [fn |-> "start"]
    /\ frame = None
    /\ ret = None

\* lines 67-97: a file is uploaded; session data is set when the file is
\* valid and preprocessed, and nothing else of the session is touched
Upload ==
    \E file \in Uploads :
        LET Handled(out) ==
                IF ~out.result[1]
                THEN ret' = Some("Error in data validation") /\ data' = data
                ELSE \E chained_inplace \in BOOLEAN :
                     \E processed \in PreprocessData(out.data, chained_inplace) :
                        IF IsRaised(processed)
                        THEN ret' = Some("Error processing file") /\ data' = data
                        ELSE ret' = Some("Data uploaded and processed successfully!")
                             /\ data' = Some(processed)
        IN  /\ Handled(ValidateData(file))
            /\ call' = [fn |-> "upload", file |-> file]
            /\ UNCHANGED <<forecast_model, forecast_data, recommendations, frame>>

\* a reset that clears the data and leaves the rest of the session
ResetOnlyData ==
    /\ data # None
    /\ data' = None
    /\ call' = [fn |-> "reset"]
    /\ ret' = Some("Data has been reset. You can upload a new file.")
    /\ UNCHANGED <<forecast_model, forecast_data, recommendations, frame>>

\* lines 100-104: Reset Data, shown while there is data
ResetData ==
    /\ data # None
    /\ data' = None
    /\ forecast_model' = None
    /\ forecast_data' = None
    /\ recommendations' = None
    /\ call' = [fn |-> "reset"]
    /\ ret' = Some("Data has been reset. You can upload a new file.")
    /\ UNCHANGED frame

\* lines 185-291: the Sales Forecasting page with a product selected; with
\* rows enough Generate Forecast is pressed
GenerateForecast ==
    /\ data # None
    /\ \E selected_product \in
              {"All Products"} \cup {Val(data).rows[k].item.text :
                                        k \in 1..Len(Val(data).rows)},
          forecast \in Predictions, now \in Clock :
          LET Run(rows) ==
                  IF Len(rows) < MinObservations
                  THEN /\ ret' = Some("Not enough data for reliable forecasting")
                       /\ UNCHANGED <<forecast_model, forecast_data,
                                      recommendations>>
                  ELSE /\ forecast_model' = Some(TrainForecastModel(rows))
                       /\ forecast_data' = Some(forecast)
                       /\ recommendations' =
                              Some(GenerateProductionRecommendations(forecast,
                                       selected_product, 10, now).result)
                       /\ ret' = Some("Sales Forecast Results")
          IN  /\ Run(ForecastRows(Val(data).rows, selected_product))
              /\ call' = [fn |-> "forecast",
                          selected_product |-> selected_product, now |-> now]
    /\ UNCHANGED <<data, frame>>

Next == Upload \/ ResetData \/ GenerateForecast

Spec == Init /\ [][Next]_vars

(***************************************************************************)
(* Properties of the session.                                              *)
(***************************************************************************)
\* the rows the last run of the forecasting page selected, one for each of
\* their dates
SelectedDates ==
    {ForecastRows(Val(data).rows, call.selected_product)[k].date :
        k \in 1..Len(ForecastRows(Val(data).rows, call.selected_product))}

\* C8: a model is never fitted on fewer than 14 observations, counted after
\* the rows of one date are summed into one, whether one product or All
\* Products is selected; a run of the forecasting page whose selection has
\* fewer reports that the data is not enough and fits nothing.
C8_NoFitBelowMinimum ==
    /\ forecast_model # None =>
           Len(Val(forecast_model).history) >= MinObservations
    /\ (call.fn = "forecast" /\ Cardinality(SelectedDates) < MinObservations)
           => ret = Some("Not enough data for reliable forecasting")

\* C9: in the state an accepted upload leaves, the recommendations and the
\* forecast of the data before it are gone: recommendations, forecast_data
\* and forecast_model are None.
C9_UploadDiscards ==
    (call.fn = "upload" /\ ret = Some("Data uploaded and processed successfully!"))
        => /\ recommendations = None
           /\ forecast_data = None
           /\ forecast_model = None

\* the last run fitted a model: the rows it was given and the series fitted
Fitted == call.fn = "forecast" /\ ret = Some("Sales Forecast Results")
TrainingRows == ForecastRows(Val(data).rows, call.selected_product)
History == Val(forecast_model).history

\* the quantities of the training rows of one date
QuantitiesOn(date) ==
    LET On == SelectSeq(TrainingRows, LAMBDA r : r.date = Some(date))
    IN  Tuple([k \in 1..Len(On) |-> Val(On[k].quantity)])

\* C19: the series train_forecast_model fits has one observation for each
\* date of its input and no other, and the value of each is the sum of the
\* quantities of the rows of that date.
C19_OneObservationPerDate ==
    Fitted =>
        /\ \A j, k \in 1..Len(History) : History[j].ds = History[k].ds => j = k
        /\ {History[k].ds : k \in 1..Len(History)}
               = {Val(TrainingRows[k].date) : k \in 1..Len(TrainingRows)}
        /\ \A k \in 1..Len(History) :
               History[k].y = SumInts(QuantitiesOn(History[k].ds))

\* a model has been fitted on rows two of which have one date
C19_Witness ==
    /\ Fitted
    /\ \E j, k \in 1..Len(TrainingRows) :
           j < k /\ TrainingRows[j].date = TrainingRows[k].date

\* the four fields of the session
session == <<data, forecast_model, forecast_data, recommendations>>

\* there are recommendations only with a forecast and a model, and a
\* forecast only with data
SessionConsistent ==
    /\ recommendations # None => (forecast_data # None /\ forecast_model # None)
    /\ forecast_data # None => data # None

\* an upload that is not accepted changes no field, a reset leaves all None
SessionStep ==
    /\ (call'.fn = "upload" /\ ret' # Some("Data uploaded and processed successfully!"))
           => UNCHANGED session
    /\ call'.fn = "reset" => session' = <<None, None, None, None>>

\* C23: in every state of the session, whatever uploads, forecasts and
\* resets came before, recommendations is not None only if forecast_data and
\* forecast_model are not None, and forecast_data is not None only if data is
\* not None; an upload that is rejected leaves the four session fields as
\* they were and a reset sets the four to None.
C23_SessionConsistent == []SessionConsistent /\ [][SessionStep]_vars

\* an upload has been rejected in a session that has recommendations
C23_Witness ==
    /\ call.fn = "upload"
    /\ ret \in {Some("Error in data validation"), Some("Error processing file")}
    /\ recommendations # None
====
